---- MODULE Spec2Model ----
(***************************************************************************)
(* A model of src/src/html/jsdoc.rs of deno_doc: the JSDoc-to-HTML         *)
(* pipeline (parse_links, the comrak tree rewrites, markdown_to_html and   *)
(* its thread-local state around the ammonia sanitizer).                   *)
(*                                                                         *)
(* Text is modelled as a sequence of one-character strings, so that the    *)
(* regular expressions, split_once and trim act on it as they do in Rust.  *)
(* An Option is a sequence of length 0 (None) or 1 (Some).                 *)
(***************************************************************************)
EXTENDS Integers, Sequences, FiniteSets, TLC

VARIABLES
  \* parse_links
  inp, ctx, md, occs, out, lpc,
  \* the tree passes: the parsed document, the entry point run on it, the tree
  \* it leaves, the html before sanitization and the value returned
  doc, tpc, arena, tres, tret,
  \* the threads that render: where each is, what it renders, its html, how
  \* far the sanitizer is, what the url evaluator saw, what it returned
  pc, job, rendered, pos, seen, ret,
  \* the thread-local cells, one of each per thread
  CURRENT_FILE, URL_REWRITER,
  \* split_markdown_title: the text of an example, where the call is, its result
  example, epc, parts

linkVars == <<inp, ctx, md, occs, out, lpc>>
treeVars == <<doc, tpc, arena, tres, tret>>
threadVars == <<pc, job, rendered, pos, seen, ret, CURRENT_FILE, URL_REWRITER>>
splitVars == <<example, epc, parts>>
vars == <<inp, ctx, md, occs, out, lpc, doc, tpc, arena, tres, tret,
          pc, job, rendered, pos, seen, ret, CURRENT_FILE, URL_REWRITER,
          example, epc, parts>>

(***************************************************************************)
(* Options and text                                                        *)
(***************************************************************************)
None == <<>>
Some(x) == <<x>>
IsSome(o) == Len(o) = 1
Unwrap(o) == o[1]

\* char::is_whitespace, restricted to the characters the inputs use
WS == {" ", "\t", "\n"}

\* the backquote character, which a TLA+ string cannot hold
Backtick == "backquote"

\* [A-Za-z]
Letter ==
  {"a","b","c","d","e","f","g","h","i","j","k","l","m","n","o","p","q","r",
   "s","t","u","v","w","x","y","z","A","B","C","D","E","F","G","H","I","J",
   "K","L","M","N","O","P","Q","R","S","T","U","V","W","X","Y","Z"}

Drop(s, n) == SubSeq(s, n + 1, Len(s))
Take(s, n) == SubSeq(s, 1, n)

StartsWith(s, p) == Len(p) <= Len(s) /\ Take(s, Len(p)) = p
StartsAt(s, i, p) == i + Len(p) - 1 <= Len(s) /\ SubSeq(s, i, i + Len(p) - 1) = p
EndsWith(s, p) == Len(p) <= Len(s) /\ Drop(s, Len(s) - Len(p)) = p

\* str::find of a pattern: the first index it starts at, 0 when it does not occur
Find(s, p) ==
  LET hits == {i \in 1..Len(s) : StartsAt(s, i, p)}
  IN  IF hits = {} THEN 0 ELSE CHOOSE i \in hits : \A j \in hits : i <= j

\* str::split_once(c): Some((before, after)) at the first c
split_once(s, c) ==
  LET i == Find(s, <<c>>)
  IN  IF i = 0 THEN None ELSE Some(<<Take(s, i - 1), Drop(s, i)>>)

\* str::trim
trim(s) ==
  LET keep == {i \in 1..Len(s) : s[i] \notin WS}
  IN  IF keep = {} THEN <<>>
      ELSE LET lo == CHOOSE i \in keep : \A j \in keep : i <= j
               hi == CHOOSE i \in keep : \A j \in keep : j <= i
           IN  SubSeq(s, lo, hi)

\* the number of whitespace characters of s from index i on
RECURSIVE WsRun(_, _)
WsRun(s, i) == IF i <= Len(s) /\ s[i] \in WS THEN 1 + WsRun(s, i + 1) ELSE 0

NoWs(s) == \A i \in 1..Len(s) : s[i] \notin WS

(***************************************************************************)
(* The regular expressions (lines 19-28)                                   *)
(***************************************************************************)
AtLink == <<"@", "l", "i", "n", "k">>
ModCode == <<"c", "o", "d", "e">>
ModPlain == <<"p", "l", "a", "i", "n">>

\* JSDOC_LINK_RE anchored at index i of s:
\*   \{\s*@link(?P<modifier>code|plain)?\s+(?P<value>[^}]+)}
\* None, or Some([modifier, value, end]) with end the index of the closing brace.
\* \s+ is greedy and gives one character back when [^}]+ would be empty.
JSDOC_LINK_RE(s, i) ==
  IF ~(i <= Len(s) /\ s[i] = "{") THEN None
  ELSE
    LET a == i + 1 + WsRun(s, i + 1)
    IN  IF ~StartsAt(s, a, AtLink) THEN None
        ELSE
          LET b == a + Len(AtLink)
              modifier == IF StartsAt(s, b, ModCode) THEN Some(ModCode)
                          ELSE IF StartsAt(s, b, ModPlain) THEN Some(ModPlain)
                          ELSE None
              c == IF IsSome(modifier) THEN b + Len(Unwrap(modifier)) ELSE b
              k == WsRun(s, c)
              closes == {e \in (c + k)..Len(s) : s[e] = "}"}
          IN  IF k = 0 \/ closes = {} THEN None
              ELSE
                LET e == CHOOSE x \in closes : \A y \in closes : x <= y
                IN  IF e > c + k
                      THEN Some([modifier |-> modifier,
                                 value |-> SubSeq(s, c + k, e - 1),
                                 end |-> e])
                    ELSE IF k >= 2
                      THEN Some([modifier |-> modifier,
                                 value |-> SubSeq(s, e - 1, e - 1),
                                 end |-> e])
                    ELSE None

\* LINK_RE.is_match:  (^\.{0,2}\/)|(^[A-Za-z]+:\S)
LINK_RE(s) ==
  \/ \E d \in 0..2 :
       /\ Len(s) >= d + 1
       /\ \A i \in 1..d : s[i] = "."
       /\ s[d + 1] = "/"
  \/ \E n \in 1..Len(s) :
       /\ \A i \in 1..n : s[i] \in Letter
       /\ Len(s) >= n + 2
       /\ s[n + 1] = ":"
       /\ s[n + 2] \notin WS

\* MODULE_LINK_RE.captures:  ^\[(\S+)\](?:\.(\S+)|\s|)$
\* None, or Some([module, symbol]) with symbol an Option. (\S+) is greedy: the
\* closing bracket is the last one that lets the rest match.
MODULE_LINK_RE(s) ==
  LET RestOk(r) == \/ r = <<>>
                   \/ Len(r) = 1 /\ r[1] \in WS
                   \/ Len(r) >= 2 /\ r[1] = "." /\ NoWs(Drop(r, 1))
      ks == {k \in 3..Len(s) :
               /\ s[1] = "["
               /\ s[k] = "]"
               /\ NoWs(SubSeq(s, 2, k - 1))
               /\ RestOk(Drop(s, k))}
  IN  IF ks = {} THEN None
      ELSE
        LET k == CHOOSE x \in ks : \A y \in ks : y <= x
            r == Drop(s, k)
        IN  Some([module |-> SubSeq(s, 2, k - 1),
                  symbol |-> IF Len(r) >= 2 THEN Some(Drop(r, 1)) ELSE None])

(***************************************************************************)
(* The render context, as parse_links reads it.                            *)
(*   doc_nodes    the documentation graph, in insertion order: a sequence  *)
(*                of [path, display_name, is_main, nodes], nodes being the *)
(*                qualified names of the module's symbols                  *)
(*   current      ctx.get_current_resolve()                                *)
(*   hrefs        what lookup_symbol_href answers (a finite map)           *)
(*   external     what href_resolver.resolve_external_jsdoc_module answers *)
(***************************************************************************)
\* short_path.as_resolve_kind()
as_resolve_kind(short_path) ==
  IF short_path.is_main THEN [kind |-> "Root"]
  ELSE [kind |-> "File", file |-> short_path.path]

\* ctx.ctx.resolve_path(current, target): a page path relative to the current page
resolve_path(current, target) ==
  LET up == IF current.kind = "Symbol" THEN <<".", ".", "/">> ELSE <<".", "/">>
  IN  CASE target.kind = "Root" -> up
        [] target.kind = "File" -> up \o target.file \o <<"/">>
        [] target.kind = "Symbol" ->
             up \o target.file \o <<"/", "~", "/">> \o target.symbol

\* ctx.lookup_symbol_href(link)
lookup_symbol_href(c, link) ==
  IF link \in DOMAIN c.hrefs THEN Some(c.hrefs[link]) ELSE None

\* ctx.ctx.href_resolver.resolve_external_jsdoc_module(module, symbol)
resolve_external_jsdoc_module(c, module, symbol) ==
  IF <<module, symbol>> \in DOMAIN c.external
    THEN Some(c.external[<<module, symbol>>])
    ELSE None

\* a slip: the module is looked up by its path alone
FindModule_path(c, module_link) ==
  LET hits == {i \in 1..Len(c.doc_nodes) : c.doc_nodes[i].path = module_link}
  IN  IF hits = {} THEN None
      ELSE Some(c.doc_nodes[CHOOSE i \in hits : \A j \in hits : i <= j])

\* ctx.ctx.doc_nodes.iter().find(path == module_link || display_name == module_link)
FindModule(c, module_link) ==
  LET hits == {i \in 1..Len(c.doc_nodes) :
                 \/ c.doc_nodes[i].path = module_link
                 \/ c.doc_nodes[i].display_name = module_link}
  IN  IF hits = {} THEN None
      ELSE Some(c.doc_nodes[CHOOSE i \in hits : \A j \in hits : i <= j])

(***************************************************************************)
(* parse_links (lines 100-207), stage by stage                             *)
(***************************************************************************)
\* a slip: the space is tried before the pipe
SplitValue_space(value) ==
  LET bySpace == split_once(value, " ")
      sp == IF IsSome(bySpace) THEN bySpace ELSE split_once(value, "|")
  IN  IF IsSome(sp)
        THEN [link |-> trim(Unwrap(sp)[1]), title |-> trim(Unwrap(sp)[2])]
        ELSE [link |-> value, title |-> <<>>]

\* lines 108-114: value.split_once('|').or_else(|| value.split_once(' '))
SplitValue(value) ==
  LET byPipe == split_once(value, "|")
      sp == IF IsSome(byPipe) THEN byPipe ELSE split_once(value, " ")
  IN  IF IsSome(sp)
        THEN [link |-> trim(Unwrap(sp)[1]), title |-> trim(Unwrap(sp)[2])]
        ELSE [link |-> value, title |-> <<>>]

\* a slip: any symbol name is taken to be in the module
HasSymbol_any(nodes, symbol) == TRUE

\* lines 131-133: nodes.iter().any(|node| node.get_qualified_name() == symbol)
HasSymbol(nodes, symbol) == \E n \in 1..Len(nodes) : nodes[n] = symbol

\* lines 116-172: the module reference. external says whether the external
\* resolver was called.
ModuleStage(link, title, c) ==
  LET caps == MODULE_LINK_RE(link)
  IN  IF ~IsSome(caps) THEN [link |-> link, title |-> title, external |-> FALSE]
      ELSE
        LET module_link == Unwrap(caps).module
            symbol_match == Unwrap(caps).symbol
            module == FindModule(c, module_link)
        IN  IF IsSome(module)
              THEN
                LET short_path == Unwrap(module)
                IN  IF IsSome(symbol_match)
                      THEN
                        IF HasSymbol(short_path.nodes, Unwrap(symbol_match))
                          THEN [link |-> resolve_path(c.current,
                                           [kind |-> "Symbol",
                                            file |-> short_path.path,
                                            symbol |-> Unwrap(symbol_match)]),
                                title |-> IF title = <<>>
                                            THEN short_path.display_name \o <<" ">>
                                                   \o Unwrap(symbol_match)
                                            ELSE title,
                                external |-> FALSE]
                          ELSE [link |-> link, title |-> title, external |-> FALSE]
                      ELSE [link |-> resolve_path(c.current,
                                                  as_resolve_kind(short_path)),
                            title |-> IF title = <<>>
                                        THEN short_path.display_name ELSE title,
                            external |-> FALSE]
              ELSE
                LET ext == resolve_external_jsdoc_module(c, module_link,
                                                         symbol_match)
                IN  IF IsSome(ext)
                      THEN [link |-> Unwrap(ext)[1], title |-> Unwrap(ext)[2],
                            external |-> TRUE]
                      ELSE [link |-> link, title |-> title, external |-> TRUE]

\* a slip: the href that the lookup found is not taken
HrefStage_kept(link, title, c) ==
  [title |-> IF title = <<>> THEN link ELSE title, link |-> link]

\* lines 174-190: the symbol-href lookup and the default title
HrefStage(link, title, c) ==
  LET href == lookup_symbol_href(c, link)
      t == IF title = <<>> THEN link ELSE title
  IN  IF IsSome(href) THEN [title |-> t, link |-> Unwrap(href)]
      ELSE [title |-> t, link |-> link]

\* a slip: the code modifier is forgotten when the target is not linkable
Emit_plain(code, title, link) ==
  IF LINK_RE(link)
    THEN IF code
           THEN <<"[", Backtick>> \o title \o <<Backtick, "]", "(">> \o link \o <<")">>
           ELSE <<"[">> \o title \o <<"]", "(">> \o link \o <<")">>
    ELSE title

\* lines 192-205: the text that replaces the occurrence
Emit(code, title, link) ==
  IF LINK_RE(link)
    THEN IF code
           THEN <<"[", Backtick>> \o title \o <<Backtick, "]", "(">> \o link \o <<")">>
           ELSE <<"[">> \o title \o <<"]", "(">> \o link \o <<")">>
    ELSE IF code THEN <<Backtick>> \o title \o <<Backtick>> ELSE title

\* the closure handed to replace_all (lines 101-206), with what each stage gave
Replace(captures, c) ==
  LET code == captures.modifier = Some(ModCode)
      value == captures.value
      s1 == SplitValue(value)
      s2 == ModuleStage(s1.link, s1.title, c)
      s3 == HrefStage(s2.link, s2.title, c)
  IN  [code |-> code, value |-> value,
       link0 |-> s1.link, title0 |-> s1.title,
       link1 |-> s2.link, title1 |-> s2.title, external |-> s2.external,
       link |-> s3.link, title |-> s3.title,
       text |-> Emit(code, s3.title, s3.link)]

\* Regex::replace_all: the leftmost matches, none overlapping. The result is the
\* sequence of pieces of the output: a character kept, or a replaced occurrence.
RECURSIVE Scan(_, _, _)
Scan(s, i, c) ==
  IF i > Len(s) THEN <<>>
  ELSE
    LET m == JSDOC_LINK_RE(s, i)
    IN  IF IsSome(m)
          THEN <<[occ |-> TRUE, from |-> i, to |-> Unwrap(m).end,
                  r |-> Replace(Unwrap(m), c)]>>
                 \o Scan(s, Unwrap(m).end + 1, c)
          ELSE <<[occ |-> FALSE, ch |-> s[i]]>> \o Scan(s, i + 1, c)

RECURSIVE Flatten(_)
Flatten(pieces) ==
  IF pieces = <<>> THEN <<>>
  ELSE (IF pieces[1].occ THEN pieces[1].r.text ELSE <<pieces[1].ch>>)
         \o Flatten(Drop(pieces, 1))

parse_links(s, c) == Flatten(Scan(s, 1, c))

\* the occurrences parse_links replaced, in order
Occurrences(s, c) == SelectSeq(Scan(s, 1, c), LAMBDA p : p.occ)

(***************************************************************************)
(* The inputs of parse_links: one cross-reference between two runs of      *)
(* text, and the render contexts it is resolved in.                        *)
(***************************************************************************)
\* the longest run of spaces between @link and its value
MaxGap == 2

RECURSIVE Spaces(_)
Spaces(n) == IF n = 0 THEN <<>> ELSE <<" ">> \o Spaces(n - 1)

Gaps == {Spaces(n) : n \in 1..MaxGap} \cup {<<"\n">>}

Targets ==
  { <<>>,
    <<"h", ":", "/", "x">>, <<"/", "x">>, <<".", "/", "x">>,
    <<".", ".", "/", "x">>, <<".", ".", ".", "/", "x">>,
    <<"u">>, <<"k">>,
    <<"[", "a", "]">>, <<"[", "b", "]">>, <<"[", "d", "]">>,
    <<"[", "a", "]", ".", "f">>, <<"[", "d", "]", ".", "n", ".", "z">>,
    <<"[", "a", "]", ".", "q">>,
    <<"[", "e", "]">>, <<"[", "e", "]", ".", "f">> }

\* what follows the target inside the braces
Tails ==
  { <<>>, <<" ">>, <<" ", "T">>, <<"|", "T">>,
    <<" ", "T", "|", "U">>, <<"|", "T", " ", "U">> }

Inputs ==
  [ pre : {<<>>, <<"p", " ">>},
    lead : {<<>>, <<" ">>},
    modifier : {<<>>, ModCode, ModPlain},
    gap : Gaps,
    target : Targets,
    tail : Tails,
    closed : BOOLEAN ]

\* the markdown text of an input
Assemble(i) ==
  i.pre \o <<"{">> \o i.lead \o AtLink \o i.modifier \o i.gap \o i.target
    \o i.tail \o (IF i.closed THEN <<"}">> ELSE <<>>)
    \o (IF i.pre = <<>> THEN <<>> ELSE <<" ", "q">>)

\* the documentation graph: module a (symbols f and k) and the main module b,
\* displayed as d (symbol n.z)
DocNodes ==
  << [path |-> <<"a">>, display_name |-> <<"a">>, is_main |-> FALSE,
      nodes |-> << <<"f">>, <<"k">> >>],
     [path |-> <<"b">>, display_name |-> <<"d">>, is_main |-> TRUE,
      nodes |-> << <<"n", ".", "z">> >>] >>

Hrefs ==
  { <<>>,
    (<<"k">> :> <<".", ".", "/", "a", "/", "~", "/", "k">>),
    (<<"k">> :> <<"#", "k">>) @@ (<<".", "/", "a", "/">> :> <<"/", "m">>)
      @@ (<<"[", "a", "]", ".", "q">> :> <<"/", "q">>)
      @@ (<<"h", ":", "/", "e">> :> <<"/", "e">>) }

Externals ==
  { <<>>,
    (<<<<"e">>, None>> :> << <<"h", ":", "/", "e">>, <<"E">> >>)
      @@ (<<<<"e">>, Some(<<"f">>)>> :> << <<"x", "e">>, <<>> >>) }

Currents ==
  { [kind |-> "AllSymbols"],
    [kind |-> "Symbol", file |-> <<"a">>, symbol |-> <<"f">>] }

Contexts ==
  [ doc_nodes : {DocNodes}, current : Currents, hrefs : Hrefs,
    external : Externals ]

(***************************************************************************)
(* parse_links as a state machine: an input, then its result               *)
(***************************************************************************)
LinksIdle ==
  /\ inp = <<>> /\ ctx = <<>> /\ md = <<>> /\ occs = <<>> /\ out = <<>>
  /\ lpc = "idle"

\* the parts of the state a specification leaves alone
TreeIdle ==
  doc = <<>> /\ tpc = "idle" /\ arena = <<>> /\ tres = <<>> /\ tret = <<>>
ThreadsIdle ==
  /\ pc = <<>> /\ job = <<>> /\ rendered = <<>> /\ pos = <<>> /\ seen = <<>>
  /\ ret = <<>> /\ CURRENT_FILE = <<>> /\ URL_REWRITER = <<>>

SplitIdle == example = <<>> /\ epc = "idle" /\ parts = <<>>

LinksInit ==
  /\ TreeIdle
  /\ ThreadsIdle
  /\ SplitIdle
  /\ inp \in Inputs
  /\ ctx \in Contexts
  /\ md = Assemble(inp)
  /\ occs = <<>>
  /\ out = <<>>
  /\ lpc = "call"

ParseLinks ==
  /\ lpc = "call"
  /\ out' = parse_links(md, ctx)
  /\ occs' = Occurrences(md, ctx)
  /\ lpc' = "done"
  /\ UNCHANGED <<inp, ctx, md>>
  /\ UNCHANGED <<treeVars, threadVars, splitVars>>

LinksNext == ParseLinks

SpecLinks == LinksInit /\ [][LinksNext]_vars

\* the tests of parse_links_test (lines 868-929), with this graph
TestCtx == [doc_nodes |-> DocNodes, current |-> [kind |-> "AllSymbols"],
            hrefs |-> <<>>, external |-> <<>>]
TestIn(modifier, value) ==
  <<"p", " ", "{">> \o AtLink \o modifier \o <<" ">> \o value \o <<"}", " ", "q">>
TestsPass ==
  /\ parse_links(TestIn(<<>>, <<"h", ":", "/", "x">>), TestCtx)
       = <<"p", " ", "[", "h", ":", "/", "x", "]", "(", "h", ":", "/", "x", ")", " ", "q">>
  /\ parse_links(TestIn(ModCode, <<"h", ":", "/", "x", " ", "T">>), TestCtx)
       = <<"p", " ", "[", Backtick, "T", Backtick, "]", "(", "h", ":", "/", "x", ")", " ", "q">>
  /\ parse_links(TestIn(<<>>, <<"h", ":", "/", "x", "|", "T">>), TestCtx)
       = <<"p", " ", "[", "T", "]", "(", "h", ":", "/", "x", ")", " ", "q">>
  /\ parse_links(TestIn(<<>>, <<"u">>), TestCtx) = <<"p", " ", "u", " ", "q">>
  /\ parse_links(TestIn(ModCode, <<"u">>), TestCtx)
       = <<"p", " ", Backtick, "u", Backtick, " ", "q">>
  /\ parse_links(TestIn(<<>>, <<"[", "a", "]">>), TestCtx)
       = <<"p", " ", "[", "a", "]", "(", ".", "/", "a", "/", ")", " ", "q">>
  /\ parse_links(TestIn(<<>>, <<"[", "a", "]", ".", "f">>), TestCtx)
       = <<"p", " ", "[", "a", " ", "f", "]", "(", ".", "/", "a", "/", "~", "/", "f", ")", " ", "q">>

(***************************************************************************)
(* Claims about parse_links                                                *)
(***************************************************************************)
\* a well-formed occurrence {@link TARGET ...}: closed, with a target
WellFormed == lpc = "done" /\ inp.closed /\ inp.target # <<>>

Before == inp.pre
After == IF inp.pre = <<>> THEN <<>> ELSE <<" ", "q">>

\* "starts with /, ./, ../, or a letters-only scheme followed by : and a
\* non-space character"
Linkable(l) ==
  \/ StartsWith(l, <<"/">>)
  \/ StartsWith(l, <<".", "/">>)
  \/ StartsWith(l, <<".", ".", "/">>)
  \/ \E n \in 1..Len(l) :
       /\ n + 2 <= Len(l)
       /\ \A i \in 1..n : l[i] \in Letter
       /\ l[n + 1] = ":"
       /\ l[n + 2] \notin WS

AsCode(code, t) == IF code THEN <<Backtick>> \o t \o <<Backtick>> ELSE t

\* C3: every well-formed {@link TARGET} / {@linkcode TARGET} occurrence is
\* replaced as a whole: by [TITLE](LINK) ([`TITLE`](LINK) for linkcode) when the
\* final link is linkable, else by TITLE (`TITLE`); the text around it is
\* unchanged and no raw {@link syntax is left.
C3_Replaced ==
  WellFormed =>
    /\ Len(occs) = 1
    /\ LET r == occs[1].r
           code == inp.modifier = ModCode
       IN  out = Before
                   \o (IF Linkable(r.link)
                         THEN <<"[">> \o AsCode(code, r.title) \o <<"]", "(">>
                                \o r.link \o <<")">>
                         ELSE AsCode(code, r.title))
                   \o After
    /\ Find(out, AtLink) = 0
    /\ Find(out, <<"{">>) = 0

C3_Witness ==
  /\ WellFormed
  /\ inp.modifier = ModCode
  /\ inp.pre # <<>>
  /\ inp.target = <<".", ".", "/", "x">>
  /\ occs[1].r.title = <<"T">>
  /\ out = <<"p", " ", "[", Backtick, "T", Backtick, "]", "(", ".", ".", "/", "x",
             ")", " ", "q">>

\* the index of the first character of s that is in set cs, 0 when there is none
FirstOf(s, cs) ==
  LET hits == {i \in 1..Len(s) : s[i] \in cs}
  IN  IF hits = {} THEN 0 ELSE CHOOSE i \in hits : \A j \in hits : i <= j

SplitAt(s, i) ==
  IF i = 0 THEN <<s, <<>>>> ELSE <<trim(Take(s, i - 1)), trim(Drop(s, i))>>

\* C4 as claimed: the value is split at its first separator, be it | or a space
C4_FirstSeparator ==
  WellFormed =>
    LET r == occs[1].r
        want == SplitAt(r.value, FirstOf(r.value, {"|", " "}))
    IN  r.link0 = want[1] /\ r.title0 = want[2]

\* C4, amended: the value is split at its first | when it has one, and only
\* otherwise at its first space; both parts trimmed, and a value with neither
\* has an empty title.
C4_PipeThenSpace ==
  WellFormed =>
    LET r == occs[1].r
        pipe == FirstOf(r.value, {"|"})
        want == SplitAt(r.value,
                        IF pipe # 0 THEN pipe ELSE FirstOf(r.value, {" "}))
    IN  /\ r.value = inp.target \o inp.tail
        /\ r.link0 = want[1]
        /\ r.title0 = want[2]

C4_Witness ==
  /\ WellFormed
  /\ inp.target = <<"h", ":", "/", "x">>
  /\ inp.tail = <<" ", "T", "|", "U">>
  /\ occs[1].r.link0 = <<"h", ":", "/", "x", " ", "T">>
  /\ occs[1].r.title0 = <<"U">>

\* the names a module answers to
NamesOf(m) == {m.path, m.display_name}
Modules == {DocNodes[i] : i \in 1..Len(DocNodes)}
Bracket(name) == <<"[">> \o name \o <<"]">>

\* C5: a target [MODULE] naming a module of the graph by path or display name
\* resolves to that module's page, an empty title becoming its display name;
\* [MODULE].SYMBOL with SYMBOL a qualified name of the module resolves to the
\* symbol's page, an empty title becoming "<display name> <symbol>"; the
\* external resolver is called only when no module of the graph matches.
C5_ModuleReference ==
  WellFormed =>
    LET r == occs[1].r
    IN  /\ \A m \in Modules : \A name \in NamesOf(m) :
             /\ r.link0 = Bracket(name) =>
                  /\ r.link1 = resolve_path(ctx.current, as_resolve_kind(m))
                  /\ r.title1 = (IF r.title0 = <<>> THEN m.display_name
                                 ELSE r.title0)
             /\ \A n \in 1..Len(m.nodes) :
                  r.link0 = Bracket(name) \o <<".">> \o m.nodes[n] =>
                    /\ r.link1 = resolve_path(ctx.current,
                                   [kind |-> "Symbol", file |-> m.path,
                                    symbol |-> m.nodes[n]])
                    /\ r.title1 = (IF r.title0 = <<>>
                                     THEN m.display_name \o <<" ">> \o m.nodes[n]
                                     ELSE r.title0)
        /\ r.external =>
             \A m \in Modules : \A name \in NamesOf(m) :
               ~StartsWith(r.link0, Bracket(name))

C5_Witness ==
  /\ WellFormed
  /\ occs[1].r.link0 = <<"[", "d", "]", ".", "n", ".", "z">>
  /\ occs[1].r.title0 = <<>>
  /\ occs[1].r.title1 = <<"d", " ", "n", ".", "z">>
  /\ occs[1].r.link1 = <<".", ".", "/", "b", "/", "~", "/", "n", ".", "z">>

\* a plain name: letters only
PlainName(l) == l # <<>> /\ \A i \in 1..Len(l) : l[i] \in Letter

\* [MODULE].SYMBOL with MODULE a module of the graph that has no such symbol
UnknownSymbol(l) ==
  \E m \in Modules : \E name \in NamesOf(m) :
    LET p == Bracket(name) \o <<".">>
    IN  /\ StartsWith(l, p)
        /\ Len(l) > Len(p)
        /\ NoWs(l)
        /\ \A n \in 1..Len(m.nodes) : m.nodes[n] # Drop(l, Len(p))

\* [MODULE] or [MODULE].SYMBOL with a MODULE the graph does not have
UnknownModule(l) ==
  /\ StartsWith(l, <<"[">>)
  /\ NoWs(l)
  /\ LET close == FirstOf(l, {"]"})
     IN  /\ close > 2
         /\ \/ close = Len(l)
            \/ close + 1 < Len(l) /\ l[close + 1] = "."
         /\ \A m \in Modules : SubSeq(l, 2, close - 1) \notin NamesOf(m)

\* C6: on a resolution miss (an unknown plain name, a known module without the
\* symbol, or a module unknown locally that the external resolver does not
\* know either) with the symbol-href lookup failing too, the occurrence becomes
\* the explicit title, else the raw target, as plain text or inline code, and
\* never a link.
C6_Miss ==
  WellFormed =>
    LET r == occs[1].r
        code == inp.modifier = ModCode
    IN  ( /\ \/ PlainName(r.link0)
             \/ UnknownSymbol(r.link0)
             \/ UnknownModule(r.link0) /\ ctx.external = <<>>
          /\ r.link1 \notin DOMAIN ctx.hrefs )
        => /\ out = Before
                      \o AsCode(code, IF r.title0 # <<>> THEN r.title0
                                      ELSE r.link0)
                      \o After
           /\ Find(out, <<"]", "(">>) = 0

C6_Witness ==
  /\ WellFormed
  /\ inp.modifier = ModCode
  /\ inp.pre = <<>>
  /\ occs[1].r.link0 = <<"[", "a", "]", ".", "q">>
  /\ occs[1].r.title0 = <<>>
  /\ ctx.hrefs = <<>>
  /\ out = <<Backtick, "[", "a", "]", ".", "q", Backtick>>

(***************************************************************************)
(* The comrak tree: an arena of nodes linked as in comrak::arena_tree.     *)
(* A node is [kind, lit, parent, prev, next, first, last]; a node is named *)
(* by its index in the arena and 0 is no node. lit is the literal of a     *)
(* Text, Code or CodeBlock, the url of a Link, the html of an HtmlBlock.   *)
(***************************************************************************)
NewNode(kind, lit) ==
  [kind |-> kind, lit |-> lit, parent |-> 0, prev |-> 0, next |-> 0,
   first |-> 0, last |-> 0]

\* arena.alloc(AstNode::new(..)): the new node is the last of the arena
Alloc(a, kind, lit) == Append(a, NewNode(kind, lit))

\* Node::detach, given the parent and the siblings of n: what was around n
\* is linked together, and n is on its own
Unlink(a, n, parent, prev, next) ==
  [k \in 1..Len(a) |->
     IF k = n THEN [a[k] EXCEPT !.parent = 0, !.prev = 0, !.next = 0]
     ELSE [a[k] EXCEPT
             !.prev = IF k = next THEN prev ELSE @,
             !.next = IF k = prev THEN next ELSE @,
             !.first = IF k = parent /\ prev = 0 THEN next ELSE @,
             !.last = IF k = parent /\ next = 0 THEN prev ELSE @]]

\* Node::detach
detach(a, n) == Unlink(a, n, a[n].parent, a[n].prev, a[n].next)

\* Node::append, once new_child is detached: it goes after the last child
PushBack(a, self, new_child) ==
  [k \in 1..Len(a) |->
     IF k = new_child
       THEN [a[k] EXCEPT !.parent = self, !.prev = a[self].last]
     ELSE IF k = self
       THEN [a[k] EXCEPT !.last = new_child,
                         !.first = IF a[self].last = 0 THEN new_child ELSE @]
     ELSE IF k = a[self].last THEN [a[k] EXCEPT !.next = new_child]
     ELSE a[k]]

\* Node::append: self.append(new_child)
append(a, self, new_child) == PushBack(detach(a, new_child), self, new_child)

\* Node::insert_before, once new_sibling is detached
PutBefore(a, self, new_sibling) ==
  [k \in 1..Len(a) |->
     IF k = new_sibling
       THEN [a[k] EXCEPT !.parent = a[self].parent, !.next = self,
                         !.prev = a[self].prev]
     ELSE IF k = self THEN [a[k] EXCEPT !.prev = new_sibling]
     ELSE IF k = a[self].prev THEN [a[k] EXCEPT !.next = new_sibling]
     ELSE IF k = a[self].parent /\ a[self].prev = 0
       THEN [a[k] EXCEPT !.first = new_sibling]
     ELSE a[k]]

\* Node::insert_before: self.insert_before(new_sibling)
insert_before(a, self, new_sibling) ==
  PutBefore(detach(a, new_sibling), self, new_sibling)

\* node.children(), read off the links: the children of n in order
RECURSIVE Siblings(_, _)
Siblings(a, n) == IF n = 0 THEN <<>> ELSE <<n>> \o Siblings(a, a[n].next)
Children(a, n) == Siblings(a, a[n].first)

\* the nodes of the subtree of n, n first, in document order
RECURSIVE Subtree(_, _)
RECURSIVE SubtreeAll(_, _)
Subtree(a, n) == <<n>> \o SubtreeAll(a, a[n].first)
SubtreeAll(a, n) ==
  IF n = 0 THEN <<>> ELSE Subtree(a, n) \o SubtreeAll(a, a[n].next)

(***************************************************************************)
(* HTML, as a sequence of tokens [t, tag, cls, url, s]:                    *)
(*   open/close  a start or end tag, with its class and its href or src    *)
(*   void        an element without content (br)                           *)
(*   text        a run of text s                                           *)
(*   icon        one of the svg icons of templates/icons, named by s       *)
(***************************************************************************)
Tok(t, tag, cls, url, s) == [t |-> t, tag |-> tag, cls |-> cls, url |-> url, s |-> s]
Open(tag) == Tok("open", tag, "", <<>>, <<>>)
Close(tag) == Tok("close", tag, "", <<>>, <<>>)
TextTok(s) == Tok("text", "", "", <<>>, s)
Wrapped(tag, inner) == <<Open(tag)>> \o inner \o <<Close(tag)>>

\* render_node (lines 420-428): comrak::format_html_with_plugins of the subtree
\* of n, raw html passed through (options.render.unsafe_)
RECURSIVE render_node(_, _)
RECURSIVE RenderAll(_, _)
render_node(a, n) ==
  LET kind == a[n].kind
      inner == RenderAll(a, a[n].first)
  IN  CASE kind = "Document" -> inner
        [] kind = "Paragraph" -> Wrapped("p", inner)
        [] kind = "BlockQuote" -> Wrapped("blockquote", inner)
        [] kind = "Heading" -> Wrapped("h1", inner)
        [] kind = "Emph" -> Wrapped("em", inner)
        [] kind = "CodeBlock" ->
             Wrapped("pre", Wrapped("code", <<TextTok(a[n].lit)>>))
        [] kind = "Code" -> Wrapped("code", <<TextTok(a[n].lit)>>)
        [] kind = "Text" -> <<TextTok(a[n].lit)>>
        [] kind = "SoftBreak" -> <<TextTok(<<"\n">>)>>
        [] kind = "LineBreak" -> <<Tok("void", "br", "", <<>>, <<>>)>>
        [] kind = "Link" ->
             <<Tok("open", "a", "", a[n].lit, <<>>)>> \o inner \o <<Close("a")>>
        [] kind = "HtmlBlock" -> a[n].lit
RenderAll(a, n) ==
  IF n = 0 THEN <<>> ELSE render_node(a, n) \o RenderAll(a, a[n].next)

(***************************************************************************)
(* The tree rewrite: match_node_value and walk_node (lines 241-389)        *)
(***************************************************************************)
Marker(name) == <<"[", "!">> \o name \o <<"]">>
NOTE == <<"N", "O", "T", "E">>
TIP == <<"T", "I", "P">>
IMPORTANT == <<"I", "M", "P", "O", "R", "T", "A", "N", "T">>
WARNING == <<"W", "A", "R", "N", "I", "N", "G">>
CAUTION == <<"C", "A", "U", "T", "I", "O", "N">>

\* lines 261-283: the alert a first text run announces, and its title
AlertOf(text) ==
  LET sp == split_once(text, " ")
      kind == IF IsSome(sp) THEN Unwrap(sp)[1] ELSE text
      title == IF IsSome(sp) THEN Some(Unwrap(sp)[2]) ELSE None
      Or(default) == IF IsSome(title) THEN Unwrap(title) ELSE default
  IN  CASE kind = Marker(NOTE) ->
             Some([alert |-> "note", title |-> Or(<<"N", "o", "t", "e">>)])
        [] kind = Marker(TIP) ->
             Some([alert |-> "tip", title |-> Or(<<"T", "i", "p">>)])
        [] kind = Marker(IMPORTANT) ->
             Some([alert |-> "important",
                   title |-> Or(<<"I", "m", "p", "o", "r", "t", "a", "n", "t">>)])
        [] kind = Marker(WARNING) ->
             Some([alert |-> "warning",
                   title |-> Or(<<"W", "a", "r", "n", "i", "n", "g">>)])
        [] kind = Marker(CAUTION) ->
             Some([alert |-> "caution",
                   title |-> Or(<<"C", "a", "u", "t", "i", "o", "n">>)])
        [] OTHER -> None

\* lines 312-332: the icon of an alert
IconOf(alert) ==
  CASE alert = "note" -> <<"i", "n", "f", "o">>
    [] alert = "tip" -> <<"b", "u", "l", "b">>
    [] alert = "important" -> <<"m", "e", "s", "s", "a", "g", "e">>
    [] alert = "warning" -> <<"t", "r", "i", "a", "n", "g", "l", "e">>
    [] alert = "caution" -> <<"o", "c", "t", "a", "g", "o", "n">>

\* lines 334-343: the html of an alert
AlertHtml(alert, title, html) ==
  <<Tok("open", "div", "alert alert-" \o alert, <<>>, <<>>)>>
    \o Wrapped("div", <<Tok("icon", "svg", "", <<>>, IconOf(alert)),
                        TextTok(title)>>)
    \o Wrapped("div", html)
    \o <<Close("div")>>

\* line 362: the html of a video
VideoHtml(url) == <<Tok("open", "video", "", url, <<>>), Close("video")>>

\* for child in node.children(): the iterator reads the next sibling of a child
\* when it yields the child, before the loop body runs
NextChild_late(before, after, child) == after[child].next
NextChild(before, after, child) == before[child].next

\* lines 301-306: for child_node in <from>.children().skip(1) { to.append(..) }
RECURSIVE MoveFrom(_, _, _)
MoveOn(before, after, child, to) ==
  MoveFrom(after, NextChild(before, after, child), to)
MoveFrom(a, child, to) ==
  IF child = 0 THEN a ELSE MoveOn(a, append(a, to, child), child, to)
MoveRest(a, from, to) ==
  IF a[from].first = 0 THEN a ELSE MoveFrom(a, a[a[from].first].next, to)

\* lines 259-287: the alert of a block quote, None when it is not one
AlertOfQuote(a, node) ==
  LET paragraph_child == a[node].first
  IN  IF paragraph_child = 0 \/ a[paragraph_child].kind # "Paragraph" THEN None
      ELSE LET text_child == a[paragraph_child].first
           IN  IF text_child = 0 \/ a[text_child].kind # "Text" THEN None
               ELSE AlertOf(a[text_child].lit)

\* a video url (line 359)
IsVideo(url) ==
  EndsWith(url, <<".", "m", "o", "v">>) \/ EndsWith(url, <<".", "m", "p", "4">>)

\* lines 301-308: the rest of the first paragraph, then the later children
\* of the block quote, move under node_without_alert, and that under document
FillBody(a, node, document, node_without_alert) ==
  append(MoveRest(MoveRest(a, a[node].first, node_without_alert),
                  node, node_without_alert),
         document, node_without_alert)

\* lines 310-356: the body is rendered, and the alert takes the place of node
PutAlert(a, node, document, found) ==
  detach(insert_before(Alloc(a, "HtmlBlock",
                             AlertHtml(found.alert, found.title,
                                       render_node(a, document))),
                       node, Len(a) + 1),
         node)

\* lines 288-356: document and node_without_alert are allocated first
RewriteAlert(a, node, found) ==
  PutAlert(FillBody(Alloc(Alloc(a, "Document", <<>>), "Paragraph", <<>>),
                    node, Len(a) + 1, Len(a) + 2),
           node, Len(a) + 1, found)

\* lines 360-373
RewriteVideo(a, node) ==
  detach(insert_before(Alloc(a, "HtmlBlock", VideoHtml(a[node].lit)),
                       node, Len(a) + 1),
         node)

\* match_node_value (lines 249-377)
match_node_value(a, node) ==
  CASE a[node].kind = "BlockQuote" ->
         IF IsSome(AlertOfQuote(a, node))
           THEN RewriteAlert(a, node, Unwrap(AlertOfQuote(a, node)))
           ELSE a
    [] a[node].kind = "Link" ->
         IF IsVideo(a[node].lit) THEN RewriteVideo(a, node) ELSE a
    [] OTHER -> a

\* walk_node (lines 379-389)
RECURSIVE walk_node(_, _)
RECURSIVE WalkFrom(_, _)
walk_node(a, node) == WalkFrom(a, a[node].first)
WalkOn(before, after, child) == WalkFrom(after, NextChild(before, after, child))
WalkFrom(a, child) ==
  IF child = 0 THEN a
  ELSE WalkOn(a, walk_node(match_node_value(a, child), child), child)

(***************************************************************************)
(* The title extractor: walk_node_title (lines 391-418)                    *)
(***************************************************************************)
\* lines 393-411
TitleKinds ==
  {"Document", "Paragraph", "Heading", "Text", "Code", "HtmlInline", "Emph",
   "Strong", "Strikethrough", "Superscript", "Link", "Math", "Escaped",
   "WikiLink", "Underline", "SoftBreak"}

RECURSIVE walk_node_title(_, _)
RECURSIVE TitleFrom(_, _)
walk_node_title(a, node) == TitleFrom(a, a[node].first)
TitleOn(before, after, child) == TitleFrom(after, NextChild(before, after, child))
TitleFrom(a, child) ==
  IF child = 0 THEN a
  ELSE TitleOn(a,
               IF a[child].kind \in TitleKinds THEN walk_node_title(a, child)
               ELSE detach(a, child),
               child)

(***************************************************************************)
(* The plain-text extractor: collect_text of strip (lines 453-468)         *)
(***************************************************************************)
RECURSIVE collect_text(_, _)
RECURSIVE CollectAll(_, _)
collect_text(a, node) ==
  CASE a[node].kind \in {"Text", "Code"} -> a[node].lit
    [] a[node].kind \in {"LineBreak", "SoftBreak"} -> <<" ">>
    [] OTHER -> CollectAll(a, a[node].first)
CollectAll(a, n) ==
  IF n = 0 THEN <<>> ELSE collect_text(a, n) \o CollectAll(a, a[n].next)

(***************************************************************************)
(* The tree passes as a state machine. comrak::parse_document is modelled  *)
(* by what it can return: the document is built node by node, each new     *)
(* node the last child of a node that is still open (the root, or the last *)
(* child of an open node), as a parser appends them.                       *)
(***************************************************************************)
\* the most nodes of a parsed document, the root included
MaxNodes == 7

Root == 1

BlockOpts == { <<"Paragraph", <<>>>>, <<"BlockQuote", <<>>>> }

InlineOpts ==
  { <<"Text", Marker(NOTE)>>,
    <<"Text", Marker(TIP) \o <<" ", "t">>>>,
    <<"Text", <<"x">>>>,
    <<"Link", <<"v", ".", "m", "p", "4">>>>,
    <<"Link", <<"/", "y">>>>,
    <<"SoftBreak", <<>>>>,
    <<"LineBreak", <<>>>> }

\* what comrak puts under a node of each kind
ChildOpts(kind) ==
  CASE kind \in {"Document", "BlockQuote"} -> BlockOpts
    [] kind = "Paragraph" -> InlineOpts
    [] kind = "Link" -> {<<"Text", <<"x">>>>}
    [] OTHER -> {}

Breaks == {"SoftBreak", "LineBreak"}

\* adjacent text runs are one Text node, and a line break follows something
\* that is not a line break
Fits(a, parent, kind) ==
  LET last == a[parent].last
      lastKind == IF last = 0 THEN "" ELSE a[last].kind
  IN  /\ kind = "Text" => lastKind # "Text"
      /\ kind \in Breaks => lastKind \notin Breaks \cup {""}

\* the documents have an alert marker only where it can announce an alert: as
\* the first run of a paragraph (elsewhere it is a text run like any other)
MarkerFirst(a, parent, opt) ==
  (opt[1] = "Text" /\ opt[2] # <<"x">>) => a[parent].last = 0

\* a new node as the last child of parent
Grow(a, parent, kind, lit) == append(Alloc(a, kind, lit), parent, Len(a) + 1)

\* the document of an empty text: the root alone
EmptyDoc == <<NewNode("Document", <<>>)>>

\* the open nodes: the root and, of each open node, its last child
RECURSIVE OpenFrom(_, _)
OpenFrom(a, n) == IF n = 0 THEN {} ELSE {n} \cup OpenFrom(a, a[n].last)
OpenNodes(a) == OpenFrom(a, Root)

\* a parsed document has no empty paragraph, and none that ends in a line break
Parsed(a) ==
  \A n \in 1..Len(a) :
    a[n].kind = "Paragraph" =>
      a[n].last # 0 /\ a[a[n].last].kind \notin Breaks

(***************************************************************************)
(* The sanitizer and markdown_to_html (lines 222-239, 475-555)             *)
(***************************************************************************)
\* a url with a scheme; ammonia hands the others to the url_relative policy
HasScheme(url) ==
  \E n \in 1..Len(url) :
    /\ n < Len(url)
    /\ \A i \in 1..n : url[i] \in Letter
    /\ url[n + 1] = ":"

Relative(tok) == tok.url # <<>> /\ ~HasScheme(tok.url)

\* the url_rewriter of a render context: a function of the current file and
\* the url, here the text "r<id>:<file or ->:<url>"
Rewrite(rewriter, file, url) ==
  <<"r", rewriter, ":">> \o (IF IsSome(file) THEN Unwrap(file) ELSE <<"-">>)
    \o <<":">> \o url

\* an evaluator that hands every url back as it came
evaluate_raw(current_file, url_rewriter, url) == [panic |-> FALSE, url |-> url]

\* AmmoniaRelativeUrlEvaluator::evaluate (lines 225-238), given the two cells.
\* An unwrap of an unset cell panics.
evaluate(current_file, url_rewriter, url) ==
  IF ~IsSome(url_rewriter) THEN [panic |-> TRUE, url |-> <<>>]
  ELSE IF IsSome(Unwrap(url_rewriter))
    THEN IF ~IsSome(current_file) THEN [panic |-> TRUE, url |-> <<>>]
         ELSE [panic |-> FALSE,
               url |-> Rewrite(Unwrap(Unwrap(url_rewriter)),
                               Unwrap(current_file), url)]
  ELSE [panic |-> FALSE, url |-> url]

\* the index of the first token from index i on whose url is relative, 0 if none
NextUrl(h, i) ==
  LET hits == {k \in i..Len(h) : Relative(h[k])}
  IN  IF hits = {} THEN 0 ELSE CHOOSE k \in hits : \A j \in hits : k <= j

\* AMMONIA.clean with the cells as given throughout: every relative url goes
\* through the evaluator, every tag and class of the renderer is allowed
clean(h, current_file, url_rewriter) ==
  [k \in 1..Len(h) |->
     IF Relative(h[k])
       THEN [h[k] EXCEPT !.url = evaluate(current_file, url_rewriter, h[k].url).url]
       ELSE h[k]]

\* lines 503-507
class_name_full(title_only) == "markdown"
class_name(title_only) == IF title_only THEN "markdown_summary" ELSE "markdown"

\* lines 515-524: the html of the tree after its pass; None is the early return
HtmlOf(a, title_only) ==
  [arena |-> a,
   html |-> IF ~title_only THEN Some(render_node(a, Root))
            ELSE IF a[Root].first # 0 THEN Some(render_node(a, a[Root].first))
            ELSE None]

\* lines 509-525: the tree pass and the html of the tree
PreSanitize(a, title_only) ==
  HtmlOf(IF title_only THEN walk_node_title(a, Root) ELSE walk_node(a, Root),
         title_only)

\* lines 530-533: format!(r#"<div class="{class_name}">{}</div>"#, ..)
Wrap(title_only, cleaned) ==
  <<Tok("open", "div", class_name(title_only), <<>>, <<>>)>> \o cleaned
    \o <<Close("div")>>

\* lines 527-538: the html of the tree is sanitized and wrapped
Sanitized(pre, title_only, file, url_rewriter) ==
  IF ~IsSome(pre.html) THEN None
  ELSE Some(Wrap(title_only,
                 clean(Unwrap(pre.html), Some(file), Some(url_rewriter))))

\* markdown_to_html (lines 475-539) of a parsed document, run alone on its thread
markdown_to_html(a, title_only, file, url_rewriter) ==
  Sanitized(PreSanitize(a, title_only), title_only, file, url_rewriter)

\* Option<String>::unwrap_or_default (line 554)
unwrap_or_default(o) == IF IsSome(o) THEN Unwrap(o) ELSE <<>>

(***************************************************************************)
(* The tree passes as a state machine. comrak::parse_document is modelled  *)
(* by what it can return: the document is built node by node, each new     *)
(* node the last child of a node that is still open (the root, or the last *)
(* child of an open node), as a parser appends them. Then one entry point  *)
(* runs on the document.                                                   *)
(***************************************************************************)
\* the render context of the tree passes: a current file and a url rewriter
TreeFile == Some(<<"a">>)
TreeRewriter == Some("0")

TreeInit ==
  /\ LinksIdle
  /\ ThreadsIdle
  /\ SplitIdle
  /\ doc = EmptyDoc
  /\ tpc = "parse"
  /\ arena = <<>>
  /\ tres = <<>>
  /\ tret = <<>>

\* the parser appends a node
AddNode ==
  /\ tpc = "parse"
  /\ Len(doc) < MaxNodes
  /\ \E parent \in OpenNodes(doc) : \E opt \in ChildOpts(doc[parent].kind) :
       /\ Fits(doc, parent, opt[1])
       /\ MarkerFirst(doc, parent, opt)
       /\ doc' = Grow(doc, parent, opt[1], opt[2])
  /\ UNCHANGED <<tpc, arena, tres, tret>>
  /\ UNCHANGED <<linkVars, threadVars, splitVars>>

\* markdown_to_html with title_only, as for a summary
Summary ==
  /\ tpc = "parse"
  /\ Parsed(doc)
  /\ \E pre \in {PreSanitize(doc, TRUE)} :
       /\ arena' = pre.arena
       /\ tres' = pre.html
       /\ tret' = [markdown_to_html |->
                     Sanitized(pre, TRUE, TreeFile, TreeRewriter)]
  /\ tpc' = "summary"
  /\ UNCHANGED doc
  /\ UNCHANGED <<linkVars, threadVars, splitVars>>

\* render_markdown (lines 541-555): markdown_to_html in full, unwrap_or_default
RenderMarkdown ==
  /\ tpc = "parse"
  /\ Parsed(doc)
  /\ \E pre \in {PreSanitize(doc, FALSE)} :
       /\ arena' = pre.arena
       /\ tres' = pre.html
       /\ \E r \in {Sanitized(pre, FALSE, TreeFile, TreeRewriter)} :
            tret' = [markdown_to_html |-> r,
                     render_markdown |-> unwrap_or_default(r)]
  /\ tpc' = "full"
  /\ UNCHANGED doc
  /\ UNCHANGED <<linkVars, threadVars, splitVars>>

\* strip (lines 435-473), from the parsed document on: the tree rewrite
\* (line 451), then collect_text of the root (lines 470-472)
Strip ==
  /\ tpc = "parse"
  /\ Parsed(doc)
  /\ \E rewritten \in {walk_node(doc, Root)} :
       /\ arena' = rewritten
       /\ tret' = [strip |-> collect_text(rewritten, Root)]
  /\ tres' = None
  /\ tpc' = "strip"
  /\ UNCHANGED doc
  /\ UNCHANGED <<linkVars, threadVars, splitVars>>

TreeNext == AddNode \/ Summary \/ RenderMarkdown \/ Strip

SpecTree == TreeInit /\ [][TreeNext]_vars
(***************************************************************************)
(* Renders on threads. CURRENT_FILE and URL_REWRITER are thread_local!     *)
(* (lines 95-98): there is one cell of each per thread. A thread runs      *)
(* markdown_to_html again and again; the steps of one call are the steps   *)
(* at which it touches the cells, what is between them is local to the     *)
(* thread. The documents are parsed already.                               *)
(***************************************************************************)
NThreads == 2
Threads == 1..NThreads

\* the cell a thread reaches through the name of a thread-local
SlotOf_static(t) == 1
SlotOf(t) == t

\* a block quote, which a title drops, and a paragraph of a link and a video
QuoteDoc ==
  Grow(Grow(Grow(EmptyDoc, Root, "BlockQuote", <<>>), 2, "Paragraph", <<>>),
       3, "Text", <<"x">>)
LinksDoc ==
  Grow(Grow(Grow(Grow(EmptyDoc, Root, "Paragraph", <<>>), 2, "Link", <<"/", "y">>),
            3, "Text", <<"x">>),
       2, "Link", <<"v", ".", "m", "p", "4">>)
\* the renders: the title of the block quote, which returns early, and the
\* paragraph in full, which has two urls
SampleRenders ==
  { [doc |-> QuoteDoc, title_only |-> TRUE],
    [doc |-> LinksDoc, title_only |-> FALSE] }

\* the file and the rewriter of the renders of thread t
FileOf(t) == <<"m", ToString(t)>>
RewriterOf(t) == ToString(t)

\* the renders of thread t: a document, a mode, and a render context with a
\* current file, a url rewriter, or both
Jobs(t) ==
  {j \in [doc : {r.doc : r \in SampleRenders}, title_only : BOOLEAN,
          file : {None, Some(FileOf(t))},
          url_rewriter : {None, Some(RewriterOf(t))}] :
     /\ [doc |-> j.doc, title_only |-> j.title_only] \in SampleRenders
     /\ IsSome(j.file) \/ IsSome(j.url_rewriter)}

Init ==
  /\ LinksIdle
  /\ TreeIdle
  /\ SplitIdle
  /\ pc = [t \in Threads |-> "idle"]
  /\ job = [t \in Threads |-> <<>>]
  /\ rendered = [t \in Threads |-> <<>>]
  /\ pos = [t \in Threads |-> 0]
  /\ seen = [t \in Threads |-> <<>>]
  /\ ret = [t \in Threads |-> None]
  /\ CURRENT_FILE = [s \in Threads |-> None]
  /\ URL_REWRITER = [s \in Threads |-> None]

\* lines 475-525: the call, up to the html of the tree or the early return
Call(t) ==
  /\ pc[t] \in {"idle", "done"}
  /\ \E j \in Jobs(t) : \E pre \in {PreSanitize(j.doc, j.title_only)} :
       /\ job' = [job EXCEPT ![t] = j]
       /\ rendered' = [rendered EXCEPT
                         ![t] = IF IsSome(pre.html) THEN Unwrap(pre.html) ELSE <<>>]
       /\ pc' = [pc EXCEPT ![t] = IF IsSome(pre.html) THEN "rendered" ELSE "done"]
  /\ pos' = [pos EXCEPT ![t] = 1]
  /\ seen' = [seen EXCEPT ![t] = <<>>]
  /\ ret' = [ret EXCEPT ![t] = None]
  /\ UNCHANGED <<CURRENT_FILE, URL_REWRITER>>
  /\ UNCHANGED <<linkVars, treeVars, splitVars>>

\* line 527
SetCurrentFile(t) ==
  /\ pc[t] = "rendered"
  /\ CURRENT_FILE' = [CURRENT_FILE EXCEPT ![SlotOf(t)] = Some(job[t].file)]
  /\ pc' = [pc EXCEPT ![t] = "file_set"]
  /\ UNCHANGED <<job, rendered, pos, seen, ret, URL_REWRITER>>
  /\ UNCHANGED <<linkVars, treeVars, splitVars>>

\* line 528, and AMMONIA.clean begins
SetUrlRewriter(t) ==
  /\ pc[t] = "file_set"
  /\ URL_REWRITER' = [URL_REWRITER EXCEPT ![SlotOf(t)] = Some(job[t].url_rewriter)]
  /\ pc' = [pc EXCEPT ![t] = "clean"]
  /\ UNCHANGED <<job, rendered, pos, seen, ret, CURRENT_FILE>>
  /\ UNCHANGED <<linkVars, treeVars, splitVars>>

\* AMMONIA.clean reaches the next relative url and calls the evaluator, which
\* reads the cells of its thread (lines 225-238)
Evaluate(t) ==
  /\ pc[t] = "clean"
  /\ NextUrl(rendered[t], pos[t]) # 0
  /\ LET k == NextUrl(rendered[t], pos[t])
         current_file == CURRENT_FILE[SlotOf(t)]
         url_rewriter == URL_REWRITER[SlotOf(t)]
         e == evaluate(current_file, url_rewriter, rendered[t][k].url)
     IN  /\ seen' = [seen EXCEPT ![t] = Append(@,
                       [url |-> rendered[t][k].url, current_file |-> current_file,
                        url_rewriter |-> url_rewriter, result |-> e])]
         /\ rendered' = [rendered EXCEPT ![t][k].url = e.url]
         /\ pos' = [pos EXCEPT ![t] = k + 1]
         /\ pc' = [pc EXCEPT ![t] = IF e.panic THEN "panic" ELSE "clean"]
  /\ UNCHANGED <<job, ret, CURRENT_FILE, URL_REWRITER>>
  /\ UNCHANGED <<linkVars, treeVars, splitVars>>

\* AMMONIA.clean returns, the html is wrapped (lines 530-533), line 535
ClearCurrentFile(t) ==
  /\ pc[t] = "clean"
  /\ NextUrl(rendered[t], pos[t]) = 0
  /\ rendered' = [rendered EXCEPT ![t] = Wrap(job[t].title_only, @)]
  /\ CURRENT_FILE' = [CURRENT_FILE EXCEPT ![SlotOf(t)] = None]
  /\ pc' = [pc EXCEPT ![t] = "file_cleared"]
  /\ UNCHANGED <<job, pos, seen, ret, URL_REWRITER>>
  /\ UNCHANGED <<linkVars, treeVars, splitVars>>

\* the return without line 536
ClearUrlRewriter_kept(t) ==
  /\ pc[t] = "file_cleared"
  /\ ret' = [ret EXCEPT ![t] = Some(rendered[t])]
  /\ pc' = [pc EXCEPT ![t] = "done"]
  /\ UNCHANGED <<job, rendered, pos, seen, CURRENT_FILE, URL_REWRITER>>
  /\ UNCHANGED <<linkVars, treeVars, splitVars>>

\* line 536, and the return (line 538)
ClearUrlRewriter(t) ==
  /\ pc[t] = "file_cleared"
  /\ URL_REWRITER' = [URL_REWRITER EXCEPT ![SlotOf(t)] = None]
  /\ ret' = [ret EXCEPT ![t] = Some(rendered[t])]
  /\ pc' = [pc EXCEPT ![t] = "done"]
  /\ UNCHANGED <<job, rendered, pos, seen, CURRENT_FILE>>
  /\ UNCHANGED <<linkVars, treeVars, splitVars>>

Next ==
  \E t \in Threads :
    \/ Call(t)
    \/ SetCurrentFile(t)
    \/ SetUrlRewriter(t)
    \/ Evaluate(t)
    \/ ClearCurrentFile(t)
    \/ ClearUrlRewriter(t)

Spec == Init /\ [][Next]_vars

(***************************************************************************)
(* Claims about the scoped state                                           *)
(***************************************************************************)
\* C1: whenever a thread is outside markdown_to_html (before a call, and
\* after a return, the early return of None included) both its cells are
\* None; while the sanitizer runs they hold the current file and the url
\* rewriter of the render; and every call of the evaluator found both cells
\* set, so that no unwrap failed
C1_ScopedState ==
  \A t \in Threads :
    /\ pc[t] \in {"idle", "done"} =>
         CURRENT_FILE[SlotOf(t)] = None /\ URL_REWRITER[SlotOf(t)] = None
    /\ pc[t] = "clean" =>
         /\ CURRENT_FILE[SlotOf(t)] = Some(job[t].file)
         /\ URL_REWRITER[SlotOf(t)] = Some(job[t].url_rewriter)
    /\ pc[t] # "panic"
    /\ \A i \in 1..Len(seen[t]) :
         IsSome(seen[t][i].current_file) /\ IsSome(seen[t][i].url_rewriter)

\* a render that returned early with None, and a render that returned after
\* two calls of the evaluator
C1_Witness ==
  /\ \E t \in Threads :
       pc[t] = "done" /\ ret[t] = None /\ job[t].title_only /\ job[t].doc = QuoteDoc
  /\ \E t \in Threads :
       pc[t] = "done" /\ IsSome(ret[t]) /\ Len(seen[t]) = 2

\* a step leaves the cells of the threads that did not take it
KeepsOthers ==
  \A t \in Threads :
    (pc'[t] = pc[t] /\ pos'[t] = pos[t] /\ job'[t] = job[t]) =>
      /\ CURRENT_FILE'[SlotOf(t)] = CURRENT_FILE[SlotOf(t)]
      /\ URL_REWRITER'[SlotOf(t)] = URL_REWRITER[SlotOf(t)]

\* every call of the evaluator so far in the render of a thread read the
\* current file and the url rewriter of that render
ReadsOwn ==
  \A t \in Threads : \A i \in 1..Len(seen[t]) :
    /\ seen[t][i].current_file = Some(job[t].file)
    /\ seen[t][i].url_rewriter = Some(job[t].url_rewriter)

\* C2: in every step, the cells of a thread that did not take the step are
\* unchanged, and every call of the evaluator in a render reads the current
\* file and the url rewriter that the render set
C2_Isolated == [][KeepsOthers /\ ReadsOwn']_vars

\* two renders in the sanitizer at once, each after a call of the evaluator,
\* and one of them past its last url while the other is not
C2_Witness ==
  \E t, u \in Threads :
    /\ t # u
    /\ pc[t] = "clean" /\ pc[u] = "clean"
    /\ Len(seen[t]) = 1 /\ Len(seen[u]) = 2
    /\ CURRENT_FILE[SlotOf(t)] # CURRENT_FILE[SlotOf(u)]

(***************************************************************************)
(* Claims about the tree passes                                            *)
(***************************************************************************)
\* the alerts: marker, kind and default title
AlertKinds ==
  { [marker |-> Marker(NOTE), kind |-> "note", title |-> <<"N", "o", "t", "e">>],
    [marker |-> Marker(TIP), kind |-> "tip", title |-> <<"T", "i", "p">>],
    [marker |-> Marker(IMPORTANT), kind |-> "important",
     title |-> <<"I", "m", "p", "o", "r", "t", "a", "n", "t">>],
    [marker |-> Marker(WARNING), kind |-> "warning",
     title |-> <<"W", "a", "r", "n", "i", "n", "g">>],
    [marker |-> Marker(CAUTION), kind |-> "caution",
     title |-> <<"C", "a", "u", "t", "i", "o", "n">>] }

\* the first text run of the first paragraph of block quote n, 0 if none
MarkerRun(a, n) ==
  LET p == a[n].first
  IN  IF p = 0 THEN 0
      ELSE IF a[p].kind # "Paragraph" \/ a[p].first = 0 THEN 0
      ELSE IF a[a[p].first].kind # "Text" THEN 0
      ELSE a[p].first

Announces(text, k) == text = k.marker \/ StartsWith(text, k.marker \o <<" ">>)

IsAlertQuote(a, n) ==
  /\ a[n].kind = "BlockQuote"
  /\ MarkerRun(a, n) # 0
  /\ \E k \in AlertKinds : Announces(a[MarkerRun(a, n)].lit, k)

\* the callout the claim describes for alert block quote n of the parsed tree
CalloutOf(n) ==
  LET run == MarkerRun(doc, n)
      k == CHOOSE k \in AlertKinds : Announces(doc[run].lit, k)
      title == IF doc[run].lit = k.marker THEN k.title
               ELSE Drop(doc[run].lit, Len(k.marker) + 1)
      body == RenderAll(doc, doc[run].next) \o RenderAll(doc, doc[doc[n].first].next)
  IN  <<Tok("open", "div", "alert alert-" \o k.kind, <<>>, <<>>),
        Open("div"), Tok("icon", "svg", "", <<>>, IconOf(k.kind)), TextTok(title),
        Close("div"), Open("div"), Open("p")>> \o body
        \o <<Close("p"), Close("div"), Close("div")>>

\* the place of n among the children of its parent
RECURSIVE Rank(_, _)
Rank(a, n) == IF a[n].prev = 0 THEN 1 ELSE 1 + Rank(a, a[n].prev)

\* the raw-html blocks the rewrite made
NewBlocks == {h \in (Len(doc) + 1)..Len(arena) : arena[h].kind = "HtmlBlock"}

\* C7: after the full-render rewrite every alert block quote of the parsed
\* tree is gone from the tree and exactly one raw-html block with its callout
\* (kind, custom or default title, the rest of the first paragraph and the
\* later children as body) stands at its place under the parent it had; every
\* other block quote is still a block quote in the tree
C7_AlertsReplaced ==
  tpc = "full" =>
    \A n \in 1..Len(doc) :
      doc[n].kind = "BlockQuote" =>
        IF IsAlertQuote(doc, n)
          THEN /\ arena[n].parent = 0
               /\ Cardinality({h \in NewBlocks :
                                 /\ arena[h].lit = CalloutOf(n)
                                 /\ arena[h].parent = doc[n].parent
                                 /\ Rank(arena, h) = Rank(doc, n)}) = 1
          ELSE arena[n].kind = "BlockQuote" /\ arena[n].parent # 0

\* the top-level alert block quotes are replaced as C7 says
C7_TopLevel ==
  tpc = "full" =>
    \A n \in 1..Len(doc) :
      IsAlertQuote(doc, n) /\ doc[n].parent = Root =>
        /\ arena[n].parent = 0
        /\ Cardinality({h \in NewBlocks :
                          /\ arena[h].lit = CalloutOf(n)
                          /\ arena[h].parent = Root
                          /\ Rank(arena, h) = Rank(doc, n)}) = 1

IsVideoLink(a, n) == a[n].kind = "Link" /\ IsVideo(a[n].lit)

\* C8: after the full-render rewrite every link of the parsed document to a
\* .mov or .mp4 url is out of the tree, a raw-html video block stands where it
\* stood, and the html has no <a> with such a url
C8_VideosReplaced ==
  tpc = "full" =>
    /\ \A n \in 1..Len(doc) :
         IsVideoLink(doc, n) =>
           /\ arena[n].parent = 0
           /\ \E h \in NewBlocks :
                /\ arena[h].lit = VideoHtml(doc[n].lit)
                /\ arena[h].parent = doc[n].parent
                /\ Rank(arena, h) = Rank(doc, n)
    /\ \A i \in 1..Len(Unwrap(tres)) :
         Unwrap(tres)[i].tag = "a" => ~IsVideo(Unwrap(tres)[i].url)

\* the video links outside every alert block quote are replaced as C8 says
InAlert(a, n) ==
  \E q \in 1..Len(a) : IsAlertQuote(a, q) /\ q # n /\ n \in
    {Subtree(a, q)[i] : i \in 1..Len(Subtree(a, q))}
C8_OutsideAlerts ==
  tpc = "full" =>
    \A n \in 1..Len(doc) :
      IsVideoLink(doc, n) /\ ~InAlert(doc, n) =>
        /\ arena[n].parent = 0
        /\ \E h \in NewBlocks :
             /\ arena[h].lit = VideoHtml(doc[n].lit)
             /\ arena[h].parent = doc[n].parent
             /\ Rank(arena, h) = Rank(doc, n)

\* the ancestors of n below the root, n included
RECURSIVE Lineage(_, _)
Lineage(a, n) ==
  IF n = 0 \/ n = Root THEN {} ELSE {n} \cup Lineage(a, a[n].parent)

Survives(n) == \A m \in Lineage(doc, n) : doc[m].kind \in TitleKinds

\* C9: after walk_node_title the nodes reachable from the root are the nodes
\* of the parsed document whose kind, and the kind of each ancestor below
\* the root, is allow-listed, in the order they had; every node reachable has
\* an allow-listed kind; a node that is not allow-listed under surviving
\* ancestors is detached with its subtree under it
C9_TitlePruned ==
  tpc = "summary" =>
    /\ Subtree(arena, Root) = SelectSeq(Subtree(doc, Root), Survives)
    /\ \A i \in 1..Len(Subtree(arena, Root)) :
         arena[Subtree(arena, Root)[i]].kind \in TitleKinds
    /\ \A n \in 2..Len(doc) :
         ~Survives(n) /\ Survives(doc[n].parent) =>
           /\ arena[n].parent = 0 /\ arena[n].prev = 0 /\ arena[n].next = 0
           /\ Subtree(arena, n) = Subtree(doc, n)

\* a pruned block between two surviving blocks, and a pruned line break with a
\* surviving run after it
C9_Witness ==
  /\ tpc = "summary"
  /\ \E n \in 1..Len(doc) :
       /\ doc[n].kind = "BlockQuote" /\ doc[n].parent = Root
       /\ doc[n].prev # 0 /\ doc[n].next # 0
       /\ doc[doc[n].next].kind = "Paragraph"
       /\ arena[n].parent = 0
  /\ \E n \in 1..Len(doc) :
       doc[n].kind = "LineBreak" /\ doc[n].next # 0 /\ arena[n].parent = 0

\* the top-level children of the parsed document that survive title pruning
TopSurvivors == SelectSeq(Children(doc, Root), Survives)

DivsOf(h, cls) == {i \in 1..Len(h) : h[i].t = "open" /\ h[i].cls = cls}

\* what markdown_to_html returns, as C10 says it: None exactly for a title
\* without a surviving top-level child, otherwise the sanitized html in one
\* div of the class of the mode
ReturnsAsClaimed ==
  LET r == tret.markdown_to_html
      title_only == tpc = "summary"
      cls == IF title_only THEN "markdown_summary" ELSE "markdown"
      inner == IF title_only THEN render_node(arena, TopSurvivors[1])
               ELSE render_node(arena, Root)
  IN  /\ r = None <=> (title_only /\ TopSurvivors = <<>>)
      /\ r # None =>
           LET h == Unwrap(r)
           IN  /\ h[1] = Tok("open", "div", cls, <<>>, <<>>)
               /\ h[Len(h)] = Close("div")
               /\ DivsOf(h, "markdown") \cup DivsOf(h, "markdown_summary") = {1}
               /\ SubSeq(h, 2, Len(h) - 1) = clean(inner, Some(TreeFile), Some(TreeRewriter))

\* the document has content to render
HasContent == Len(doc) > 1

\* C10, as stated: markdown_to_html returns as claimed, and render_markdown
\* returns the empty string exactly when there is no content to render
C10_EmptyWithoutContent ==
  tpc \in {"summary", "full"} =>
    /\ ReturnsAsClaimed
    /\ tpc = "full" => (tret.render_markdown = <<>> <=> ~HasContent)

\* C10, amended: markdown_to_html returns as claimed, and render_markdown
\* never returns the empty string: it returns the html markdown_to_html
\* returned, which for a document without content is the empty div
C10_Returns ==
  tpc \in {"summary", "full"} =>
    /\ ReturnsAsClaimed
    /\ tpc = "full" =>
         /\ tret.render_markdown = Unwrap(tret.markdown_to_html)
         /\ tret.render_markdown # <<>>
         /\ ~HasContent =>
              tret.render_markdown =
                <<Tok("open", "div", "markdown", <<>>, <<>>), Close("div")>>

\* render_markdown of a document without content returns the empty div
C10_Witness ==
  /\ tpc = "full"
  /\ ~HasContent
  /\ tret.markdown_to_html =
       Some(<<Tok("open", "div", "markdown", <<>>, <<>>), Close("div")>>)
  /\ tret.render_markdown # <<>>

\* a title of nothing but a block quote is None
C10_NoSummary ==
  /\ tpc = "summary"
  /\ HasContent
  /\ TopSurvivors = <<>>
  /\ tret.markdown_to_html = None

\* a title of two paragraphs is the first of them, with its url rewritten
C10_FirstOnly ==
  /\ tpc = "summary"
  /\ Len(TopSurvivors) > 1
  /\ \E i \in 1..Len(Unwrap(tret.markdown_to_html)) :
       Unwrap(tret.markdown_to_html)[i].url = <<"r", "0", ":", "a", ":", "/", "y">>

\* the text of a parsed tree: its text and inline-code literals in document
\* order, one space for each line break or soft break
RECURSIVE TextOf(_, _)
TextOf(a, nodes) ==
  IF nodes = <<>> THEN <<>>
  ELSE (CASE a[Head(nodes)].kind \in {"Text", "Code"} -> a[Head(nodes)].lit
          [] a[Head(nodes)].kind \in {"SoftBreak", "LineBreak"} -> <<" ">>
          [] OTHER -> <<>>) \o TextOf(a, Tail(nodes))

\* C11: strip returns the text of the parsed document: every text and
\* inline-code literal in document order, one space for each break, and
\* nothing else, so that no text run is lost to the tree rewrite
C11_AllText ==
  tpc = "strip" => tret.strip = TextOf(doc, Subtree(doc, Root))

\* strip returns the text of the tree that the rewrite leaves
C11_TextAfterRewrite ==
  tpc = "strip" => tret.strip = TextOf(arena, Subtree(arena, Root))

\* the urls of the html h, in order
RECURSIVE UrlsOf(_)
UrlsOf(h) ==
  IF h = <<>> THEN <<>>
  ELSE (IF h[1].url # <<>> THEN <<h[1].url>> ELSE <<>>) \o UrlsOf(Tail(h))

\* what the render of thread t expects for url: the rewriter of its render
\* context applied to the current file (absent or not) and the url, or the
\* url itself when the context has no rewriter
Mapped(t, url) ==
  IF IsSome(job[t].url_rewriter)
    THEN Rewrite(Unwrap(job[t].url_rewriter), job[t].file, url)
    ELSE url

\* C12: every call of the evaluator in a render returned a url, the one
\* Mapped gives for the url it was called with; and the urls of the html a
\* render returns are the urls the evaluator returned, in order
C12_UrlsMapped ==
  \A t \in Threads :
    /\ \A i \in 1..Len(seen[t]) :
         /\ ~seen[t][i].result.panic
         /\ seen[t][i].result.url = Mapped(t, seen[t][i].url)
    /\ (pc[t] = "done" /\ IsSome(ret[t])) =>
         UrlsOf(Unwrap(ret[t])) = [i \in 1..Len(seen[t]) |-> seen[t][i].result.url]

\* a finished render with a rewriter and no current file, and another with a
\* current file and no rewriter, two urls each
C12_Witness ==
  \E t, u \in Threads :
    /\ pc[t] = "done" /\ Len(seen[t]) = 2
    /\ IsSome(job[t].url_rewriter) /\ ~IsSome(job[t].file)
    /\ seen[t][1].result.url = <<"r", RewriterOf(t), ":", "-", ":", "/", "y">>
    /\ pc[u] = "done" /\ Len(seen[u]) = 2
    /\ ~IsSome(job[u].url_rewriter) /\ IsSome(job[u].file)
    /\ seen[u][2].result.url = <<"v", ".", "m", "p", "4">>

(***************************************************************************)
(* More claims about parse_links                                           *)
(***************************************************************************)
\* C13: for every occurrence, with L the link string after module or raw
\* resolution: when the symbol-href lookup knows L the final link is the href
\* it gives, else the final link is L; in both cases the final title is the
\* title so far, or L when that is empty, so that the final title is empty
\* only if L is; and the text emitted carries that title and, when the final
\* link is linkable, that link
C13_HrefLookup ==
  lpc = "done" =>
    \A i \in 1..Len(occs) :
      LET r == occs[i].r
      IN  /\ r.link = (IF r.link1 \in DOMAIN ctx.hrefs THEN ctx.hrefs[r.link1]
                       ELSE r.link1)
          /\ r.title = (IF r.title1 = <<>> THEN r.link1 ELSE r.title1)
          /\ r.title = <<>> => r.link1 = <<>>
          /\ r.text = (IF Linkable(r.link)
                         THEN <<"[">> \o AsCode(r.code, r.title) \o <<"]", "(">>
                                \o r.link \o <<")">>
                         ELSE AsCode(r.code, r.title))

\* a module reference resolved to the page of the module, which the lookup
\* knows and overrides, with the display name as title
C13_Witness ==
  /\ WellFormed
  /\ inp.pre = <<>>
  /\ inp.modifier = <<>>
  /\ occs[1].r.link0 = <<"[", "a", "]">>
  /\ occs[1].r.title0 = <<>>
  /\ occs[1].r.link1 = <<".", "/", "a", "/">>
  /\ occs[1].r.link1 \in DOMAIN ctx.hrefs
  /\ out = <<"[", "a", "]", "(", "/", "m", ")">>

\* a plain name that the lookup knows: the name is the title
C13_NameFound ==
  /\ WellFormed
  /\ inp.pre = <<>>
  /\ inp.modifier = <<>>
  /\ occs[1].r.link0 = <<"k">>
  /\ occs[1].r.title0 = <<>>
  /\ out = <<"[", "k", "]", "(", ".", ".", "/", "a", "/", "~", "/", "k", ")">>

\* an occurrence whose link string is empty: the title emitted is empty
C13_EmptyLink ==
  /\ lpc = "done"
  /\ Len(occs) = 1
  /\ occs[1].r.link1 = <<>>
  /\ occs[1].r.title = <<>>

\* C14: for every occurrence with a non-empty explicit title, the final title
\* is that title, on every resolution path, and it is the text emitted
C14_ExplicitTitle ==
  lpc = "done" =>
    \A i \in 1..Len(occs) :
      LET r == occs[i].r
      IN  r.title0 # <<>> =>
            /\ r.title = r.title0
            /\ r.text = (IF Linkable(r.link)
                           THEN <<"[">> \o AsCode(r.code, r.title0) \o <<"]", "(">>
                                  \o r.link \o <<")">>
                           ELSE AsCode(r.code, r.title0))

\* the occurrence was handed to the external resolver, which knew the module
ExternallyResolved(r) ==
  /\ r.external
  /\ IsSome(MODULE_LINK_RE(r.link0))
  /\ <<Unwrap(MODULE_LINK_RE(r.link0)).module,
       Unwrap(MODULE_LINK_RE(r.link0)).symbol>> \in DOMAIN ctx.external

\* on every path but that of the external resolver the explicit title is kept
C14_OtherPaths ==
  lpc = "done" =>
    \A i \in 1..Len(occs) :
      (occs[i].r.title0 # <<>> /\ ~ExternallyResolved(occs[i].r)) =>
        occs[i].r.title = occs[i].r.title0

(***************************************************************************)
(* split_markdown_title (lines 209-220)                                    *)
(***************************************************************************)
BlankLine == <<"\n", "\n">>
Fence == <<Backtick, Backtick, Backtick>>

\* str::split_at, the index counted from 0
split_at(s, index) == <<Take(s, index), Drop(s, index)>>

\* lines 210-213: md.find(..) counted from 0; a pattern that does not occur
\* gives usize::MAX, which is never below md.len() and so never the minimum
SplitIndex(s) ==
  LET found == {Find(s, p) - 1 : p \in {BlankLine, Fence}} \ {-1}
      cands == found \cup {Len(s)}
  IN  CHOOSE i \in cands : \A j \in cands : i <= j

\* a slip: the fence marker is not looked for
split_markdown_title_blank(s) ==
  LET newline == IF Find(s, BlankLine) = 0 THEN Len(s) ELSE Find(s, BlankLine) - 1
      halves == split_at(s, newline)
  IN  IF halves[1] = <<>> THEN [title |-> None, body |-> Some(halves[2])]
      ELSE IF halves[2] = <<>> THEN [title |-> None, body |-> Some(halves[1])]
      ELSE [title |-> Some(halves[1]), body |-> Some(halves[2])]

\* split_markdown_title (lines 209-220)
split_markdown_title(s) ==
  LET halves == split_at(s, SplitIndex(s))
  IN  IF halves[1] = <<>> THEN [title |-> None, body |-> Some(halves[2])]
      ELSE IF halves[2] = <<>> THEN [title |-> None, body |-> Some(halves[1])]
      ELSE [title |-> Some(halves[1]), body |-> Some(halves[2])]

\* the texts of an example: up to MaxLen characters, each a letter, a line
\* feed or a backquote
MaxLen == 6
RECURSIVE TextsOf(_)
TextsOf(n) ==
  IF n = 0 THEN {<<>>}
  ELSE TextsOf(n - 1)
         \cup {Append(t, c) : t \in {u \in TextsOf(n - 1) : Len(u) = n - 1},
                              c \in {"a", "\n", Backtick}}
Examples == TextsOf(MaxLen)

SplitInit ==
  /\ LinksIdle
  /\ TreeIdle
  /\ ThreadsIdle
  /\ example \in Examples
  /\ epc = "call"
  /\ parts = <<>>

\* line 622: let (maybe_title, body) = split_markdown_title(example)
SplitMarkdownTitle ==
  /\ epc = "call"
  /\ parts' = split_markdown_title(example)
  /\ epc' = "done"
  /\ UNCHANGED example
  /\ UNCHANGED <<linkVars, treeVars, threadVars>>

SplitNext == SplitMarkdownTitle

SpecSplit == SplitInit /\ [][SplitNext]_vars

\* the places where the text may be split: where a blank line or a fence
\* marker starts, and the end of the text
SplitPoints ==
  {i \in 0..Len(example) :
     \/ i = Len(example)
     \/ StartsAt(example, i + 1, BlankLine)
     \/ StartsAt(example, i + 1, Fence)}

\* C15: with i the first split point, a title is reported exactly when both
\* example[..i] and example[i..] are non-empty, and then they are the title
\* and the body, so that title followed by body is the text; otherwise no
\* title is reported and the body is the whole text; a body is always
\* returned, even for the empty text
C15_TitleAndBody ==
  epc = "done" =>
    LET i == CHOOSE k \in SplitPoints : \A j \in SplitPoints : k <= j
        prefix == SubSeq(example, 1, i)
        suffix == SubSeq(example, i + 1, Len(example))
    IN  /\ IsSome(parts.body)
        /\ IF prefix # <<>> /\ suffix # <<>>
             THEN /\ parts.title = Some(prefix)
                  /\ parts.body = Some(suffix)
                  /\ Unwrap(parts.title) \o Unwrap(parts.body) = example
             ELSE parts.title = None /\ parts.body = Some(example)

\* a fence marker before a blank line: the text is split at the fence
C15_Witness ==
  /\ epc = "done"
  /\ example = <<"a", Backtick, Backtick, Backtick, "\n", "\n">>
  /\ parts.title = Some(<<"a">>)
  /\ parts.body = Some(<<Backtick, Backtick, Backtick, "\n", "\n">>)

\* the empty text has a body and no title
C15_Empty ==
  epc = "done" /\ example = <<>> /\ parts = [title |-> None, body |-> Some(<<>>)]
====
